---- MODULE Spec2Model ----
(***************************************************************************)
(* Model of collector/src/track_speed.py: the speed-test collector.        *)
(*                                                                         *)
(* One process: it schedules run_speed_test_job every 5 minutes, runs it   *)
(* once at startup inside try/except (the primer), then polls the          *)
(* scheduler once per second forever.  A job runs the speedtest utility,   *)
(* parses its JSON output and inserts one row in tracker.speed_result.     *)
(*                                                                         *)
(* Time is in seconds.  Python floats are modelled as exact decimals with  *)
(* six fractional digits: [int, micro] stands for int + micro / 10^6.      *)
(* The utility's standard output is modelled by the document it holds (or  *)
(* by the reason it holds none); database calls take no time.              *)
(***************************************************************************)
EXTENDS Integers, Sequences, FiniteSets, TLC

\* ---------------------------------------------------------------- constants

Interval == 300
PollSleep == 1
BitsPerByte == 8
Mega == 1000000

\* ------------------------------------------------------------------- bounds

MaxTime == 700
ShortRun == 2
LongRun == 301

Durations == {ShortRun, LongRun}

\* --------------------------------------------------------------- JSON values

Num(i, m) == [t |-> "num", int |-> i, micro |-> m]
Str(s) == [t |-> "str", s |-> s]
Null == [t |-> "null"]
Obj(fields) == [t |-> "obj", f |-> fields]
EmptyObj == [t |-> "obj", f |-> [k \in {} |-> Null]]

\* Python's None as returned by run_speed_test on a handled failure.
NoneVal == [t |-> "None"]

\* bool(data) of line 56
Truthy(v) ==
    CASE v.t = "None" -> FALSE
      [] v.t = "null" -> FALSE
      [] v.t = "obj" -> DOMAIN v.f # {}
      [] v.t = "num" -> v.int # 0 \/ v.micro # 0
      [] v.t = "str" -> v.s # ""

\* variant: a missing key yields None, as dict.get would
GetItemLenient(v, key) ==
    IF v.t # "obj" THEN [exc |-> "TypeError"]
    ELSE IF key \notin DOMAIN v.f THEN [exc |-> "none", val |-> Null]
    ELSE [exc |-> "none", val |-> v.f[key]]

\* v[key] of lines 66-70: the value, or the exception the subscript raises
GetItem(v, key) ==
    IF v.t # "obj" THEN [exc |-> "TypeError"]
    ELSE IF key \notin DOMAIN v.f THEN [exc |-> "KeyError"]
    ELSE [exc |-> "none", val |-> v.f[key]]

\* v[k1][k2]
GetPath(v, k1, k2) ==
    LET a == GetItem(v, k1)
    IN IF a.exc # "none" THEN a ELSE GetItem(a.val, k2)

\* x * 8 on a number
TimesBits(x) ==
    LET m == x.micro * BitsPerByte
    IN Num(x.int * BitsPerByte + (m \div Mega), m % Mega)

\* x / 1_000_000 on a whole number
PerMega(x) == Num(x.int \div Mega, x.int % Mega)

\* variant: integer division, the fraction of a megabit is lost
ToMbpsFloor(b) ==
    IF b.t # "num" THEN [exc |-> "TypeError"]
    ELSE [exc |-> "none", val |-> Num(TimesBits(b).int \div Mega, 0)]

\* bandwidth * 8 / 1_000_000 of lines 66-67
ToMbps(b) ==
    IF b.t # "num" THEN [exc |-> "TypeError"]
    ELSE [exc |-> "none", val |-> PerMega(TimesBits(b))]

NoParams == <<>>

\* variant: download and upload change places
ExtractSwapped(data) ==
    LET dl == GetPath(data, "download", "bandwidth")
        ul == GetPath(data, "upload", "bandwidth")
        pg == GetPath(data, "ping", "latency")
        sn == GetPath(data, "server", "name")
        sl == GetPath(data, "server", "location")
    IN IF dl.exc # "none" THEN [exc |-> dl.exc]
       ELSE IF ToMbps(dl.val).exc # "none" THEN [exc |-> ToMbps(dl.val).exc]
       ELSE IF ul.exc # "none" THEN [exc |-> ul.exc]
       ELSE IF ToMbps(ul.val).exc # "none" THEN [exc |-> ToMbps(ul.val).exc]
       ELSE IF pg.exc # "none" THEN [exc |-> pg.exc]
       ELSE IF sn.exc # "none" THEN [exc |-> sn.exc]
       ELSE IF sl.exc # "none" THEN [exc |-> sl.exc]
       ELSE [exc |-> "none",
             val |-> <<ToMbps(ul.val).val, ToMbps(dl.val).val, pg.val, sn.val, sl.val>>]

\* lines 66-70: the five parameters of the INSERT, or the first exception
Extract(data) ==
    LET dl == GetPath(data, "download", "bandwidth")
        ul == GetPath(data, "upload", "bandwidth")
        pg == GetPath(data, "ping", "latency")
        sn == GetPath(data, "server", "name")
        sl == GetPath(data, "server", "location")
    IN IF dl.exc # "none" THEN [exc |-> dl.exc]
       ELSE IF ToMbps(dl.val).exc # "none" THEN [exc |-> ToMbps(dl.val).exc]
       ELSE IF ul.exc # "none" THEN [exc |-> ul.exc]
       ELSE IF ToMbps(ul.val).exc # "none" THEN [exc |-> ToMbps(ul.val).exc]
       ELSE IF pg.exc # "none" THEN [exc |-> pg.exc]
       ELSE IF sn.exc # "none" THEN [exc |-> sn.exc]
       ELSE IF sl.exc # "none" THEN [exc |-> sl.exc]
       ELSE [exc |-> "none",
             val |-> <<ToMbps(dl.val).val, ToMbps(ul.val).val, pg.val, sn.val, sl.val>>]

\* ------------------------------------------------------- utility's outputs

Doc(b, u, lat, name, loc) ==
    Obj([download |-> Obj([bandwidth |-> b]),
         upload |-> Obj([bandwidth |-> u]),
         ping |-> Obj([latency |-> lat]),
         server |-> Obj([name |-> name, location |-> loc])])

ExampleDoc ==
    Doc(Num(12500000, 0), Num(1250000, 0), Num(14, 200000),
        Str("ISP Node A"), Str("CityX"))

FullDocs ==
    { ExampleDoc,
      Doc(Num(125001, 0), Num(7, 0), Num(3, 0), Str("ISP Node B"), Str("CityY")),
      Doc(Num(0, 0), Num(0, 0), Num(0, 0), Str(""), Str("")) }

\* d without d[k1][k2]
Without(d, k1, k2) ==
    Obj([k \in DOMAIN d.f |->
           IF k = k1
           THEN Obj([j \in (DOMAIN d.f[k].f) \ {k2} |-> d.f[k].f[j]])
           ELSE d.f[k]])

\* d without d[k1]
WithoutSection(d, k1) == Obj([k \in (DOMAIN d.f) \ {k1} |-> d.f[k]])

FieldPaths ==
    { <<"download", "bandwidth">>, <<"upload", "bandwidth">>, <<"ping", "latency">>,
      <<"server", "name">>, <<"server", "location">> }

PartialDocs ==
    { Without(ExampleDoc, p[1], p[2]) : p \in FieldPaths }
      \cup { WithoutSection(ExampleDoc, "download"), EmptyObj }

OddDocs ==
    { Null, Str("ok"),
      Doc(Str("fast"), Num(1250000, 0), Num(14, 200000), Str("ISP Node A"), Str("CityX")) }

Docs == FullDocs \cup PartialDocs \cup OddDocs

\* What subprocess.run meets: the utility cannot be launched, exits non-zero,
\* or exits zero with a standard output that is undecodable bytes, text that
\* is not JSON, or a JSON document.
NoProc == [kind |-> "none"]

ProcessResults ==
    { [kind |-> "launch_fail"], [kind |-> "nonzero_exit"],
      [kind |-> "undecodable"], [kind |-> "not_json"] }
      \cup { [kind |-> "json", doc |-> d] : d \in Docs }

\* ------------------------------------------------------------ configuration

Params == {"DB_NAME", "DB_USER", "DB_PASSWORD", "DB_HOST", "DB_PORT"}

\* The environment at startup: the set of parameters that are set (non-empty).
\* DB_PORT counts as set when the variable is absent (default "5432").
Configs == {Params} \cup { Params \ {p} : p \in Params } \cup {{}}

\* variant: line 61 left out
ConfigCheckSkipped(cfg) == TRUE

\* all([DB_NAME, DB_USER, DB_PASSWORD, DB_HOST, DB_PORT]) of line 61
ConfigComplete(cfg) == \A p \in Params : p \in cfg

\* ---------------------------------------------------------------- exceptions

Ancestors(e) ==
    CASE e = "CalledProcessError" -> {"CalledProcessError", "SubprocessError", "Exception"}
      [] e = "JSONDecodeError" -> {"JSONDecodeError", "ValueError", "Exception"}
      [] e = "UnicodeDecodeError" -> {"UnicodeDecodeError", "UnicodeError", "ValueError", "Exception"}
      [] e = "FileNotFoundError" -> {"FileNotFoundError", "OSError", "Exception"}
      [] e = "KeyError" -> {"KeyError", "LookupError", "Exception"}
      [] e = "TypeError" -> {"TypeError", "Exception"}
      [] e = "OperationalError" -> {"OperationalError", "psycopg2.Error", "Exception"}
      [] e = "IntegrityError" -> {"IntegrityError", "psycopg2.Error", "Exception"}

\* the except clauses of run_speed_test, lines 44 and 50
HandledByRunSpeedTest(e) ==
    "CalledProcessError" \in Ancestors(e) \/ "JSONDecodeError" \in Ancestors(e)

\* variant: except psycopg2.Error alone
HandledOnlyDbErrors(e) == "psycopg2.Error" \in Ancestors(e)

\* except (Exception, psycopg2.Error) of line 85
HandledByStoreResults(e) ==
    "Exception" \in Ancestors(e) \/ "psycopg2.Error" \in Ancestors(e)

\* variant: the primer call without its try/except
PrimerUnguarded(e) == FALSE

\* except Exception of line 107, around the primer call only
HandledByPrimerGuard(e) == "Exception" \in Ancestors(e)

\* --------------------------------------------------------------------- state

VARIABLES
    config,         \* parameters set in the environment, read once at import
    pc,             \* where the process is
    cycle,          \* "none", "primer" or "scheduled": the job being run, or the last one run
    running,        \* number of run_speed_test_job calls in progress
    now,            \* the clock, seconds since the job was scheduled (line 100)
    next_run,       \* the scheduler's next_run of the job
    proc,           \* what subprocess.run met in this cycle
    speed_data,     \* speed_data of run_speed_test_job
    params,         \* the five values computed by lines 66-70
    exc,            \* exception in flight inside the with blocks
    pending,        \* rows inserted in the open transaction
    conn,           \* store_results' local conn: "none" or "open"
    open_conns,     \* connections open at the database
    table,          \* tracker.speed_result
    log,            \* lines written to standard output since the cycle began
    raised,         \* exception that left run_speed_test_job
    store_calls,    \* calls of store_results in this cycle
    connect_count,  \* psycopg2.connect calls in this cycle
    connected,      \* psycopg2.connect returned a connection in this cycle
    inserts,        \* parameter tuples of the cursor.execute calls in this cycle
    table_at_start, \* the table when this cycle began
    primer_raised,  \* the primer call raised
    primer_end,     \* time the primer call ended, -1 before
    sched_starts,   \* start times of the scheduled cycles
    sched_dues,     \* next_run when each scheduled cycle began
    sched_ends      \* end times of the scheduled cycles that returned

vars == << config, pc, cycle, running, now, next_run, proc, speed_data, params, exc,
           pending, conn, open_conns, table, log, raised, store_calls, connect_count,
           connected, inserts, table_at_start, primer_raised, primer_end, sched_starts,
           sched_dues, sched_ends >>

sched_hist == << sched_starts, sched_dues, sched_ends >>
db_vars == << pending, conn, open_conns, table >>
counters == << store_calls, connect_count, connected, inserts, table_at_start >>

NoRaise == [type |-> "none", origin |-> "none"]

MsgJobStart == "Scheduler starting speed test job..."
MsgRunning == "Running speed test..."
MsgCompleted == "Speed test completed."
MsgRunError == "Error running speedtest"
MsgParseError == "Error parsing JSON output"
MsgNoData == "No data to store."
MsgConfig == "Database configuration is incomplete. Check environment variables."
MsgStored == "Successfully stored result"
MsgDbError == "Error while connecting to PostgreSQL or inserting data"
MsgJobEnd == "Speed test job finished."
MsgInitialFailed == "Initial run failed"

\* schedule.every(5).minutes.do(...): the job is first due one interval after
\* it was scheduled
Init ==
    /\ config \in Configs
    /\ pc = "main"
    /\ cycle = "none"
    /\ running = 0
    /\ now = 0
    /\ next_run = 0 + Interval
    /\ proc = NoProc
    /\ speed_data = NoneVal
    /\ params = NoParams
    /\ exc = "none"
    /\ pending = << >>
    /\ conn = "none"
    /\ open_conns = 0
    /\ table = << >>
    /\ log = << >>
    /\ raised = NoRaise
    /\ store_calls = 0
    /\ connect_count = 0
    /\ connected = FALSE
    /\ inserts = << >>
    /\ table_at_start = << >>
    /\ primer_raised = FALSE
    /\ primer_end = -1
    /\ sched_starts = << >>
    /\ sched_dues = << >>
    /\ sched_ends = << >>

\* ------------------------------------------------------------------- the job

\* run_speed_test_job is entered: line 90
BeginJob(kind) ==
    /\ pc' = "run_speed_test"
    /\ cycle' = kind
    /\ running' = running + 1
    /\ log' = << MsgJobStart >>
    /\ proc' = NoProc
    /\ speed_data' = NoneVal
    /\ params' = NoParams
    /\ exc' = "none"
    /\ raised' = NoRaise
    /\ store_calls' = 0
    /\ connect_count' = 0
    /\ connected' = FALSE
    /\ inserts' = << >>
    /\ table_at_start' = table
    /\ UNCHANGED << config, now, next_run, db_vars, primer_raised, primer_end >>

\* line 106
StartPrimer ==
    /\ pc = "main"
    /\ BeginJob("primer")
    /\ UNCHANGED sched_hist

\* the exception subprocess.run or json.loads raises, "none" when neither does
RaisedBy(r) ==
    CASE r.kind = "launch_fail" -> "FileNotFoundError"
      [] r.kind = "nonzero_exit" -> "CalledProcessError"
      [] r.kind = "undecodable" -> "UnicodeDecodeError"
      [] r.kind = "not_json" -> "JSONDecodeError"
      [] r.kind = "json" -> "none"

\* json.loads on a document: JSON null is Python's None
JsonLoads(doc) == IF doc.t = "null" THEN NoneVal ELSE doc

\* run_speed_test, lines 26-52, called at line 91; the utility runs for d seconds
RunSpeedTest ==
    /\ pc = "run_speed_test"
    /\ \E d \in Durations, r \in ProcessResults :
         LET e == RaisedBy(r) IN
         /\ now + d <= MaxTime
         /\ now' = now + d
         /\ proc' = r
         /\ IF e = "none"
            THEN /\ speed_data' = JsonLoads(r.doc)
                 /\ log' = log \o << MsgRunning, MsgCompleted >>
                 /\ pc' = "store_results"
                 /\ raised' = raised
            ELSE IF HandledByRunSpeedTest(e)
            THEN /\ speed_data' = NoneVal
                 /\ log' = log \o << MsgRunning,
                                     IF e = "JSONDecodeError" THEN MsgParseError
                                                              ELSE MsgRunError >>
                 /\ pc' = "store_results"
                 /\ raised' = raised
            ELSE /\ speed_data' = speed_data
                 /\ log' = Append(log, MsgRunning)
                 /\ pc' = "raise"
                 /\ raised' = [type |-> e, origin |-> "run_speed_test"]
    /\ UNCHANGED << config, cycle, running, next_run, params, exc, db_vars, counters,
                    primer_raised, primer_end, sched_hist >>

\* An exception e is raised inside the try block of store_results: line 85
\* catches it and line 86 logs it, or it leaves store_results.
Except(e) ==
    IF HandledByStoreResults(e)
    THEN /\ pc' = "store_return"
         /\ log' = Append(log, MsgDbError)
         /\ raised' = raised
    ELSE /\ pc' = "raise"
         /\ log' = log
         /\ raised' = [type |-> e, origin |-> "store_results"]

\* store_results is called (line 92): lines 56-70
StoreResults ==
    /\ pc = "store_results"
    /\ store_calls' = store_calls + 1
    /\ IF ~Truthy(speed_data)
       THEN /\ log' = Append(log, MsgNoData)
            /\ pc' = "store_return"
            /\ UNCHANGED << params, raised >>
       ELSE IF ~ConfigComplete(config)
       THEN /\ log' = Append(log, MsgConfig)
            /\ pc' = "store_return"
            /\ UNCHANGED << params, raised >>
       ELSE LET x == Extract(speed_data) IN
            IF x.exc = "none"
            THEN /\ params' = x.val
                 /\ pc' = "connect"
                 /\ UNCHANGED << log, raised >>
            ELSE /\ Except(x.exc)
                 /\ params' = params
    /\ UNCHANGED << config, cycle, running, now, next_run, proc, speed_data, exc, db_vars,
                    connect_count, connected, inserts, table_at_start, primer_raised,
                    primer_end, sched_hist >>

\* psycopg2.connect, line 74
Connect ==
    /\ pc = "connect"
    /\ connect_count' = connect_count + 1
    /\ \E outcome \in {"ok", "refused", "auth_failed"} :
         IF outcome = "ok"
         THEN /\ conn' = "open"
              /\ open_conns' = open_conns + 1
              /\ connected' = TRUE
              /\ pc' = "execute"
              /\ UNCHANGED << log, raised >>
         ELSE /\ Except("OperationalError")
              /\ UNCHANGED << conn, open_conns, connected >>
    /\ UNCHANGED << config, cycle, running, now, next_run, proc, speed_data, params, exc,
                    pending, table, store_calls, inserts, table_at_start, primer_raised,
                    primer_end, sched_hist >>

\* conn.cursor() and cursor.execute(sql, ...), lines 75-81
Execute ==
    /\ pc = "execute"
    /\ inserts' = Append(inserts, params)
    /\ \E ok \in BOOLEAN :
         IF ok
         THEN pending' = Append(pending, params) /\ exc' = "none"
         ELSE pending' = pending /\ exc' = "IntegrityError"
    /\ pc' = "exit_with"
    /\ UNCHANGED << config, cycle, running, now, next_run, proc, speed_data, params, conn,
                    open_conns, table, log, raised, store_calls, connect_count, connected,
                    table_at_start, primer_raised, primer_end, sched_hist >>

\* The with blocks are left: the cursor is closed, and the connection's
\* __exit__ commits when no exception is in flight and rolls back otherwise.
\* It does not close the connection.  Line 83 logs the stored result.
ExitWith ==
    /\ pc = "exit_with"
    /\ IF exc = "none"
       THEN \E committed \in BOOLEAN :
              IF committed
              THEN /\ table' = table \o pending
                   /\ log' = Append(log, MsgStored)
                   /\ pc' = "store_return"
                   /\ raised' = raised
              ELSE /\ table' = table
                   /\ Except("OperationalError")
       ELSE /\ table' = table
            /\ Except(exc)
    /\ pending' = << >>
    /\ exc' = "none"
    /\ UNCHANGED << config, cycle, running, now, next_run, proc, speed_data, params, conn,
                    open_conns, counters, primer_raised, primer_end, sched_hist >>

\* variant: a reference to the connection outlives the call
StoreReturnLeaky ==
    /\ pc = "store_return"
    /\ pc' = "job_end"
    /\ conn' = "none"
    /\ UNCHANGED << config, cycle, running, now, next_run, proc, speed_data, params, exc,
                    pending, open_conns, table, log, raised, counters, primer_raised,
                    primer_end, sched_hist >>

\* store_results returns: its frame is released, and with it the only
\* reference to the connection, which the connection's deallocation closes.
StoreReturn ==
    /\ pc = "store_return"
    /\ pc' = "job_end"
    /\ conn' = "none"
    /\ open_conns' = IF conn = "open" THEN open_conns - 1 ELSE open_conns
    /\ UNCHANGED << config, cycle, running, now, next_run, proc, speed_data, params, exc,
                    pending, table, log, raised, counters, primer_raised, primer_end,
                    sched_hist >>

\* variant: the next run is counted from the previous due time
NextRunFromDue(t, due) == due + Interval

\* Job._schedule_next_run, called by Job.run after the job function returned
\* at time t: the job is next due one interval after t
NextRunAfter(t, due) == t + Interval

\* line 93, and the return to the caller: the try block of line 105 for the
\* primer, the scheduler's Job.run for a scheduled cycle
JobFinish ==
    /\ pc = "job_end"
    /\ log' = Append(log, MsgJobEnd)
    /\ running' = running - 1
    /\ pc' = "loop"
    /\ proc' = NoProc
    /\ speed_data' = NoneVal
    /\ params' = NoParams
    /\ IF cycle = "scheduled"
       THEN /\ next_run' = NextRunAfter(now, next_run)
            /\ sched_ends' = Append(sched_ends, now)
            /\ primer_end' = primer_end
       ELSE /\ primer_end' = now
            /\ UNCHANGED << next_run, sched_ends >>
    /\ UNCHANGED << config, cycle, now, exc, db_vars, raised, counters, primer_raised,
                    sched_starts, sched_dues >>

\* ------------------------------------------------------------- the main block

\* An exception leaves run_speed_test_job.  Around the primer call, line 107
\* catches it and line 108 logs it; Scheduler.run_pending and the while loop
\* catch nothing, so the exception ends the process.  Either way the frames
\* are unwound and what they held is released.
Unwind ==
    /\ pc = "raise"
    /\ running' = 0
    /\ conn' = "none"
    /\ open_conns' = 0
    /\ pending' = << >>
    /\ proc' = NoProc
    /\ speed_data' = NoneVal
    /\ params' = NoParams
    /\ exc' = "none"
    /\ IF cycle = "primer" /\ HandledByPrimerGuard(raised.type)
       THEN /\ pc' = "loop"
            /\ log' = Append(log, MsgInitialFailed)
            /\ primer_raised' = TRUE
            /\ primer_end' = now
       ELSE /\ pc' = "crashed"
            /\ UNCHANGED << log, primer_raised, primer_end >>
    /\ UNCHANGED << config, cycle, now, next_run, table, raised, counters, sched_hist >>

\* variant: the scheduler is polled from a second thread
PollingAnywhere == pc \notin {"main", "crashed", "raise"}

\* schedule.run_pending() is called only at line 112, by the one thread
Polling == pc = "loop"

\* Job.should_run
ShouldRun == now >= next_run

\* schedule.run_pending() when the job is due: Job.run calls the job
RunPending ==
    /\ Polling
    /\ ShouldRun
    /\ BeginJob("scheduled")
    /\ sched_starts' = Append(sched_starts, now)
    /\ sched_dues' = Append(sched_dues, next_run)
    /\ UNCHANGED sched_ends

\* schedule.run_pending() when the job is not due, then time.sleep(1)
Sleep ==
    /\ pc = "loop"
    /\ ~ShouldRun
    /\ now + PollSleep <= MaxTime
    /\ now' = now + PollSleep
    /\ UNCHANGED << config, pc, cycle, running, next_run, proc, speed_data, params, exc,
                    db_vars, log, raised, counters, primer_raised, primer_end,
                    sched_hist >>

Next ==
    \/ StartPrimer
    \/ RunSpeedTest
    \/ StoreResults
    \/ Connect
    \/ Execute
    \/ ExitWith
    \/ StoreReturn
    \/ JobFinish
    \/ Unwind
    \/ RunPending
    \/ Sleep

Spec == Init /\ [][Next]_vars

\* ---------------------------------------------- vocabulary of the properties

SeqHas(seq, m) == \E i \in 1..Len(seq) : seq[i] = m

LastOf(seq) == seq[Len(seq)]

StorePcs == {"store_results", "connect", "execute", "exit_with", "store_return"}

\* the document holds d[k1][k2]
HasField(d, k1, k2) ==
    /\ d.t = "obj"
    /\ k1 \in DOMAIN d.f
    /\ d.f[k1].t = "obj"
    /\ k2 \in DOMAIN d.f[k1].f

HasAllFields(d) == \A p \in FieldPaths : HasField(d, p[1], p[2])

NumericBandwidths(d) ==
    /\ d.f.download.f.bandwidth.t = "num"
    /\ d.f.upload.f.bandwidth.t = "num"

\* m is b bytes per second in megabits per second: m * 10^6 = b * 8, for a
\* whole number b
IsMbpsOf(m, b) ==
    /\ m.t = "num"
    /\ m.micro >= 0
    /\ m.micro < 1000000
    /\ m.int * 1000000 + m.micro = b.int * 8

\* row holds the five values derived from the document d
RowMatches(row, d) ==
    /\ Len(row) = 5
    /\ IsMbpsOf(row[1], d.f.download.f.bandwidth)
    /\ IsMbpsOf(row[2], d.f.upload.f.bandwidth)
    /\ row[3] = d.f.ping.f.latency
    /\ row[4] = d.f.server.f.name
    /\ row[5] = d.f.server.f.location

ExampleRow ==
    << Num(100, 0), Num(10, 0), Num(14, 200000), Str("ISP Node A"), Str("CityX") >>

\* the utility's output is not JSON, or is JSON that lacks one of the five fields
Malformed(r) ==
    \/ r.kind = "not_json"
    \/ r.kind = "json" /\ ~HasAllFields(r.doc)

Diagnostics == { MsgParseError, MsgNoData, MsgConfig, MsgDbError }

\* ----------------------------------------------------------------------- C1

\* C1: no failure of invoking the utility or of parsing its output ends the
\* process: the process never crashes on an exception that left run_speed_test.
C1_InvocationFailureNeverCrashes ==
    ~(pc = "crashed" /\ raised.origin = "run_speed_test")

\* ----------------------------------------------------------------------- C2

\* C2: an exception raised by the primer call is logged and swallowed, the
\* driving loop is entered, and from there the job is started when it is due.
C2_PrimerFailureIsSwallowed ==
    [][ /\ (pc = "raise" /\ cycle = "primer") =>
             (pc' = "loop" /\ primer_raised' /\ LastOf(log') = MsgInitialFailed)
        /\ (pc = "loop" /\ primer_raised /\ now >= next_run) =>
             (pc' = "run_speed_test" /\ cycle' = "scheduled" /\ running' = 1)
      ]_vars

C2_Witness ==
    /\ primer_raised
    /\ cycle = "scheduled"
    /\ pc = "job_end"
    /\ Len(sched_starts) >= 2

\* ----------------------------------------------------------------------- C3

\* C3: a connection is attempted only with a result and a complete
\* configuration; after a non-zero exit store_results is still called, with
\* None, and does not connect; with a parsed output and a parameter missing
\* no connection is attempted and the skip is logged.
C3_ConnectOnlyWithResultAndConfig ==
    /\ (pc \in StorePcs \cup {"job_end"} /\ (connect_count > 0 \/ pc = "connect")) =>
          (speed_data.t # "None" /\ config = Params)
    /\ (pc = "job_end" /\ proc.kind = "nonzero_exit") =>
          (store_calls = 1 /\ speed_data = NoneVal /\ connect_count = 0
             /\ SeqHas(log, MsgNoData))
    /\ (pc = "job_end" /\ proc.kind = "json" /\ config # Params) =>
          (connect_count = 0
             /\ (SeqHas(log, MsgConfig) \/ SeqHas(log, MsgNoData))
             /\ (HasAllFields(proc.doc) => SeqHas(log, MsgConfig)))

C3_Witness ==
    /\ pc = "job_end"
    /\ proc.kind = "json"
    /\ proc.doc = ExampleDoc
    /\ config = Params \ {"DB_PASSWORD"}
    /\ connect_count = 0
    /\ SeqHas(log, MsgConfig)

\* ----------------------------------------------------------------------- C4

\* C4 as claimed: every cycle whose utility exited zero with a parsed output
\* (read here as one holding the five fields), under a complete
\* configuration, executes exactly one INSERT with the five derived values.
C4_OneInsertWheneverParsed ==
    (pc = "job_end" /\ proc.kind = "json" /\ config = Params
       /\ HasAllFields(proc.doc) /\ NumericBandwidths(proc.doc)) =>
        (Len(inserts) = 1 /\ RowMatches(inserts[1], proc.doc))

\* C4 as amended: no cycle executes more than one INSERT, and a cycle whose
\* parsed output holds the five fields with numeric bandwidths, under a
\* complete configuration and with the connection established, executes
\* exactly one INSERT, with the five derived values.
C4_OneInsertWhenConnected ==
    /\ Len(inserts) <= 1
    /\ (pc = "job_end" /\ proc.kind = "json" /\ config = Params /\ connected
          /\ HasAllFields(proc.doc) /\ NumericBandwidths(proc.doc)) =>
        (Len(inserts) = 1 /\ RowMatches(inserts[1], proc.doc))

C4_Witness ==
    /\ pc = "job_end"
    /\ proc.kind = "json"
    /\ HasAllFields(proc.doc)
    /\ proc.doc.f.download.f.bandwidth = Num(125001, 0)
    /\ Len(inserts) = 1
    /\ Len(table) = Len(table_at_start) + 1

\* ----------------------------------------------------------------------- C5

\* C5: store_results never raises: from every point inside it the process
\* goes on inside it or returns to the job, a failure shows only as the
\* logged error, and the job then ends with its closing line.
C5_StoreResultsNeverRaises ==
    [][ /\ pc \in StorePcs => pc' \in StorePcs \cup {"job_end"}
        /\ raised'.origin # "store_results"
        /\ (pc \in {"connect", "execute", "exit_with"} /\ pc' = "store_return") =>
              (LastOf(log') \in {MsgStored, MsgDbError}
                 /\ (LastOf(log') = MsgDbError => table' = table))
        /\ pc = "job_end" => (pc' = "loop" /\ LastOf(log') = MsgJobEnd)
      ]_vars

C5_Witness ==
    /\ pc = "loop"
    /\ Len(inserts) = 1
    /\ table = table_at_start
    /\ SeqHas(log, MsgDbError)
    /\ LastOf(log) = MsgJobEnd

\* ----------------------------------------------------------------------- C6

C7_StoredRowIsDerived ==
    (pc = "job_end" /\ SeqHas(log, MsgStored)) =>
        /\ table = Append(table_at_start, LastOf(table))
        /\ RowMatches(LastOf(table), proc.doc)
        /\ (proc.doc = ExampleDoc => LastOf(table) = ExampleRow)

C7_Witness ==
    /\ pc = "job_end"
    /\ SeqHas(log, MsgStored)
    /\ proc.doc = ExampleDoc
    /\ table # << >>
    /\ LastOf(table) = ExampleRow

\* ----------------------------------------------------------------------- C8

C10_CyclesNeverOverlap ==
    /\ running <= 1
    /\ pc = "loop" => running = 0
    /\ \A k \in 1..Len(sched_starts) :
         /\ primer_end >= 0
         /\ sched_starts[k] >= primer_end
         /\ k > 1 => (Len(sched_ends) >= k - 1 /\ sched_starts[k] >= sched_ends[k - 1])

C10_Witness ==
    /\ Len(sched_starts) >= 1
    /\ primer_end > Interval
    /\ sched_starts[1] = primer_end
    /\ pc = "job_end"

====
